---- MODULE Spec2Model ----
(***************************************************************************)
(* Model of lib/auth/register.go: Register (first-time join over the       *)
(* network with one of three trust strategies), ReRegister (rotation over  *)
(* an authenticated client) and LocalRegister (in-process issuance).       *)
(*                                                                         *)
(* One call is modelled per behaviour.  Every external call (file read,    *)
(* NewTLSClient, GetLocalCA, RegisterUsingToken, GenerateServerKeys) is    *)
(* one step whose outcome is chosen by the environment.  Strings that the  *)
(* code inspects character by character (the token, the token file) are    *)
(* sequences of one-character strings.                                     *)
(***************************************************************************)
EXTENDS Naturals, Sequences, FiniteSets

VARIABLES
    op,           \* which entry point was called: "none", "Register", "ReRegister", "LocalRegister"
    pc,           \* position inside the called function
    params,       \* the parameters of the call
    tok,          \* Register: local tok
    fileRead,     \* the outcome of ioutil.ReadFile in readToken
    strategies,   \* the trust resolvers that were entered
    client,       \* Register: local client (0 is nil)
    err,          \* Register: local err ("" is nil)
    pinClient,    \* pinRegisterClient: the phase-1 client (0 before it exists)
    localCA,      \* pinRegisterClient / pathRegisterClient: the CA bytes obtained
    tlsCA,        \* the parsed CA certificate: <<>> or <<cert>>
    keys,         \* the PackedKeys returned by the authority: <<>> or <<keys>>
    hostID,       \* ReRegister: local hostID
    clients,      \* every client NewTLSClient constructed (or the caller supplied)
    dialAttempts, \* number of NewTLSClient calls
    fetches,      \* the GetLocalCA calls: the client each was made on
    issued,       \* the RegisterUsingToken calls
    genKeys,      \* the GenerateServerKeys calls
    trace,        \* the steps taken, in order
    ret           \* the returned (*Identity, error)

vars == <<op, pc, params, tok, fileRead, strategies, client, err, pinClient,
          localCA, tlsCA, keys, hostID, clients, dialAttempts, fetches, issued,
          genKeys, trace, ret>>

----------------------------------------------------------------------------
(* Bounds of the model *)

\* longest token string
MaxTokLen == 2
\* longest token file
MaxFileLen == 3

SeqsUpTo(S, n) == UNION {[1..k -> S] : k \in 0..n}

(* Inputs *)

TokChars == {"/", "a"}
FileChars == {"m", " ", "\n"}
Tokens == SeqsUpTo(TokChars, MaxTokLen)
FileContents == SeqsUpTo(FileChars, MaxFileLen)

\* the caller's key material: (private key, public TLS key, public SSH key)
KeyTriples == {<<"priv1", "tlspub1", "sshpub1">>, <<"priv2", "tlspub2", "sshpub2">>}

\* HostUUID is kept as its dot-separated parts
IdentityIDs == {[HostUUID |-> h, NodeName |-> "node", Role |-> "Node"] :
                  h \in {<<"host">>, <<"host", "cluster">>}}

PrincipalLists == {<<>>, <<"alias">>}
ServerLists == {<<"auth:3025">>}
CipherSuiteLists == {<<"suite">>}

\* a CA pin is "sha256:<fingerprint>", kept as its two colon-separated parts
CAPins == {<<>>, <<"sha256", "A">>, <<"sha256", "B">>}
CAPaths == {"", "/ca.pem", "/etc/ca.pem"}

\* encoded CA certificates the authority or the disk may hand out
CAPEMs == {"garbage", "pemA", "pemA2", "pemB"}

\* certificate blobs of a bundle
SSHCerts == {"badssh", "sshcert"}
TLSCerts == {"badtls", "tlscert"}
CAChains == {<<>>, <<"cacert">>}

RegisterParamsSet ==
    {[DataDir |-> "/var/lib/teleport", Token |-> t, ID |-> id, Servers |-> s,
      AdditionalPrincipals |-> ap, PrivateKey |-> k[1], PublicTLSKey |-> k[2],
      PublicSSHKey |-> k[3], CipherSuites |-> cs, CAPath |-> path, CAPin |-> pin,
      InsecureSkipCAVerification |-> ins] :
        t \in Tokens, id \in IdentityIDs, s \in ServerLists, ap \in PrincipalLists,
        k \in KeyTriples, cs \in CipherSuiteLists, path \in CAPaths, pin \in CAPins,
        ins \in BOOLEAN}

NoParams == [none |-> TRUE]
NoFileRead == [happened |-> FALSE, ok |-> FALSE, data |-> <<>>]
NoReturn == [identity |-> <<>>, err |-> ""]

----------------------------------------------------------------------------
(* Library functions *)

HasPrefix(s, p) == Len(s) >= Len(p) /\ SubSeq(s, 1, Len(p)) = p

IsSpace(c) == c \in {" ", "\n", "\t", "\r"}

RECURSIVE TrimLeft(_)
TrimLeft(s) == IF s = <<>> \/ ~IsSpace(Head(s)) THEN s ELSE TrimLeft(Tail(s))

RECURSIVE TrimRight(_)
TrimRight(s) ==
    IF s = <<>> \/ ~IsSpace(s[Len(s)]) THEN s ELSE TrimRight(SubSeq(s, 1, Len(s) - 1))

TrimSpace(s) == TrimRight(TrimLeft(s))

----------------------------------------------------------------------------
(* Collaborators of register.go that live elsewhere in the repository *)

\* utils.TLSConfig: a fresh TLS configuration with the given cipher suites;
\* certificate verification is on and no root pool is set
TLSConfig(cipherSuites) ==
    [CipherSuites |-> cipherSuites, InsecureSkipVerify |-> FALSE,
     RootCAsSet |-> FALSE, RootCAs |-> {}]

\* NewTLSClient, when it succeeds: an open client bound to the servers and the configuration
NewTLSClient(servers, tlsConfig) ==
    [addrs |-> servers, cfg |-> tlsConfig, open |-> TRUE, closes |-> 0]

\* tlsca.ParseCertificatePEM: decodes an encoded certificate, or fails
ParseCertificatePEM(bytes) ==
    IF bytes = "pemA" THEN [cert |-> <<[CommonName |-> "clusterA", SPKI |-> "A"]>>, err |-> ""]
    ELSE IF bytes = "pemA2" THEN [cert |-> <<[CommonName |-> "clusterA2", SPKI |-> "A"]>>, err |-> ""]
    ELSE IF bytes = "pemB" THEN [cert |-> <<[CommonName |-> "clusterB", SPKI |-> "B"]>>, err |-> ""]
    ELSE [cert |-> <<>>, err |-> "parse"]

\* utils.CalculateSKPI: the fingerprint of the certificate's public key
CalculateSKPI(cert) == <<"sha256", cert.SPKI>>

\* utils.CheckSKPI: nil when the pin is the certificate's fingerprint
CheckSKPI(pin, cert) == IF pin = CalculateSKPI(cert) THEN "" ELSE "pin mismatch"

\* ReadIdentityFromKeyPair: assembles an Identity from a private key and the
\* certificates of a bundle; a malformed or incomplete bundle yields an error
\* and no Identity
ReadIdentityFromKeyPair(key, cert, tlsCert, tlsCACerts) ==
    IF cert = "badssh" \/ tlsCert = "badtls" \/ tlsCACerts = <<>>
    THEN [identity |-> <<>>, err |-> "identity"]
    ELSE [identity |-> <<[Key |-> key, Cert |-> cert, TLSCert |-> tlsCert,
                          TLSCACerts |-> tlsCACerts]>>,
          err |-> ""]

\* IdentityID.HostID: the host part of the host UUID, or an error when the
\* UUID does not carry a cluster part
HostID(id) ==
    IF Len(id.HostUUID) < 2 THEN [hostID |-> "", err |-> "hostid"]
    ELSE [hostID |-> id.HostUUID[1], err |-> ""]

\* Client.Close applied once for every occurrence of a client in ids
CloseAll(cs, ids) ==
    [i \in 1..Len(cs) |->
        LET n == Cardinality({j \in 1..Len(ids) : ids[j] = i})
        IN IF n = 0 THEN cs[i]
           ELSE [cs[i] EXCEPT !.open = FALSE, !.closes = @ + n]]

\* what the authority may answer to an issuance request over the network
NetworkBundles ==
    {[Key |-> "", Cert |-> c, TLSCert |-> t, TLSCACerts |-> cas] :
        c \in SSHCerts, t \in TLSCerts, cas \in CAChains}

\* what the in-process authority may answer: it generates the private key too
LocalBundles ==
    {[Key |-> "genpriv", Cert |-> c, TLSCert |-> t, TLSCACerts |-> cas] :
        c \in SSHCerts, t \in TLSCerts, cas \in CAChains}

----------------------------------------------------------------------------
(* register.go *)

\* readToken that forgets strings.TrimSpace
readTokenUntrimmed(token, file) ==
    IF ~HasPrefix(token, <<"/">>) THEN [tok |-> token, err |-> ""]
    ELSE IF ~file.ok THEN [tok |-> <<>>, err |-> ""]
    ELSE [tok |-> file.data, err |-> ""]

\* readToken that surfaces the read error
readTokenSurfacingError(token, file) ==
    IF ~HasPrefix(token, <<"/">>) THEN [tok |-> token, err |-> ""]
    ELSE IF ~file.ok THEN [tok |-> <<>>, err |-> "token"]
    ELSE [tok |-> TrimSpace(file.data), err |-> ""]

\* readToken(token), given what ioutil.ReadFile(token) would answer
readToken(token, file) ==
    IF ~HasPrefix(token, <<"/">>) THEN [tok |-> token, err |-> ""]
    ELSE IF ~file.ok THEN [tok |-> <<>>, err |-> ""]
    ELSE [tok |-> TrimSpace(file.data), err |-> ""]

\* the switch with the pin case placed before the insecure case
SelectStrategyPinFirst(p) ==
    IF p.CAPin # <<>> THEN "pin"
    ELSE IF p.InsecureSkipCAVerification THEN "insecure"
    ELSE IF p.CAPath # "" THEN "path"
    ELSE "none"

\* the switch of Register
SelectStrategy(p) ==
    IF p.InsecureSkipCAVerification THEN "insecure"
    ELSE IF p.CAPin # <<>> THEN "pin"
    ELSE IF p.CAPath # "" THEN "path"
    ELSE "none"

\* insecureRegisterClient: the configuration of its client
InsecureTLSConfig(p) == [TLSConfig(p.CipherSuites) EXCEPT !.InsecureSkipVerify = TRUE]

\* pinRegisterClient: the configuration of the first client
PinPhase1TLSConfig(p) == [TLSConfig(p.CipherSuites) EXCEPT !.InsecureSkipVerify = TRUE]

\* the pin check left out: any CA that parses is accepted
PinVerifyParseOnly(pin, parsed) == parsed.err

\* pinRegisterClient: the parse of the fetched CA and the pin check; the error, "" when both pass
PinVerify(pin, parsed) ==
    IF parsed.err # "" THEN parsed.err ELSE CheckSKPI(pin, parsed.cert[1])

\* the second client built on the first client's configuration
PinPhase2ReusingPhase1(p, ca) ==
    [PinPhase1TLSConfig(p) EXCEPT !.RootCAsSet = TRUE, !.RootCAs = {ca}]

\* pinRegisterClient: the configuration of the second client
PinPhase2TLSConfig(p, ca) ==
    [TLSConfig(p.CipherSuites) EXCEPT !.RootCAsSet = TRUE, !.RootCAs = {ca}]

\* the deferred Close of the first client left out
PinDeferredMissing(c1) == <<>>

\* the deferred Close bound to the variable, which holds the second client
\* once it is assigned
PinDeferredLateBound(c1) == <<c1 + 1>>

\* pinRegisterClient: the clients its deferred call closes
PinDeferred(c1) == <<c1>>

\* the parse error wrapped without the message that names the path
PathParseErrorUnnamed(path) == "parse"

\* pathRegisterClient: trace.Wrap(err, "failed to parse certificate at %v", params.CAPath)
PathParseError(path) ==
    IF path = "/ca.pem" THEN "failed to parse certificate at /ca.pem"
    ELSE IF path = "/etc/ca.pem" THEN "failed to parse certificate at /etc/ca.pem"
    ELSE "failed to parse certificate at "

\* pathRegisterClient: the configuration of its client
PathTLSConfig(p, cert) ==
    [TLSConfig(p.CipherSuites) EXCEPT !.RootCAsSet = TRUE, !.RootCAs = {cert}]

\* the error of the resolver left unchecked
TrustFailedIgnored(e) == FALSE

\* Register: whether trust resolution failed
TrustFailed(e) == e # ""

\* the deferred Close left out
RegisterDeferredMissing(c) == <<>>

\* Register: the clients its deferred call closes
RegisterDeferred(c) == <<c>>

\* the request filled with the private key where the public TLS key belongs
RegisterRequestLeakingKey(p, t) ==
    [Token |-> t, HostID |-> p.ID.HostUUID, NodeName |-> p.ID.NodeName,
     Role |-> p.ID.Role, AdditionalPrincipals |-> p.AdditionalPrincipals,
     PublicTLSKey |-> p.PrivateKey, PublicSSHKey |-> p.PublicSSHKey]

\* Register: the issuance request
RegisterRequest(p, t) ==
    [Token |-> t, HostID |-> p.ID.HostUUID, NodeName |-> p.ID.NodeName,
     Role |-> p.ID.Role, AdditionalPrincipals |-> p.AdditionalPrincipals,
     PublicTLSKey |-> p.PublicTLSKey, PublicSSHKey |-> p.PublicSSHKey]

\* an error returned together with a half-built Identity
ReturnErrorWithIdentity(e) ==
    [identity |-> <<[Key |-> "", Cert |-> "", TLSCert |-> "", TLSCACerts |-> <<>>]>>, err |-> e]

\* Register: return nil, trace.Wrap(err)
ReturnError(e) == [identity |-> <<>>, err |-> e]

\* the Identity assembled with the key of the response, as LocalRegister does
RegisterResultFromResponseKey(p, k) ==
    ReadIdentityFromKeyPair(k.Key, k.Cert, k.TLSCert, k.TLSCACerts)

\* Register: the final return
RegisterResult(p, k) ==
    ReadIdentityFromKeyPair(p.PrivateKey, k.Cert, k.TLSCert, k.TLSCACerts)

----------------------------------------------------------------------------
(* The state before any call *)

Init ==
    /\ op = "none"
    /\ pc = "idle"
    /\ params = NoParams
    /\ tok = <<>>
    /\ fileRead = NoFileRead
    /\ strategies = {}
    /\ client = 0
    /\ err = ""
    /\ pinClient = 0
    /\ localCA = ""
    /\ tlsCA = <<>>
    /\ keys = <<>>
    /\ hostID = ""
    /\ clients = <<>>
    /\ dialAttempts = 0
    /\ fetches = <<>>
    /\ issued = <<>>
    /\ genKeys = <<>>
    /\ trace = <<>>
    /\ ret = NoReturn

----------------------------------------------------------------------------
(* Register *)

\* Register that goes to the switch without reading the token
CallRegisterSkippingToken ==
    /\ pc = "idle"
    /\ \E p \in RegisterParamsSet : params' = p
    /\ op' = "Register"
    /\ pc' = "selectTrust"
    /\ UNCHANGED <<tok, fileRead, strategies, client, err, pinClient, localCA, tlsCA,
                   keys, hostID, clients, dialAttempts, fetches, issued, genKeys,
                   trace, ret>>

\* the caller invokes Register(params)
CallRegister ==
    /\ pc = "idle"
    /\ \E p \in RegisterParamsSet : params' = p
    /\ op' = "Register"
    /\ pc' = "readToken"
    /\ UNCHANGED <<tok, fileRead, strategies, client, err, pinClient, localCA, tlsCA,
                   keys, hostID, clients, dialAttempts, fetches, issued, genKeys,
                   trace, ret>>

\* tok, err := readToken(params.Token); if err != nil { return nil, err }
\* The file is read only for a token that begins with "/".
RegisterReadToken ==
    /\ op = "Register" /\ pc = "readToken"
    /\ \E f \in {[happened |-> TRUE, ok |-> FALSE, data |-> <<>>]}
                \cup {[happened |-> TRUE, ok |-> TRUE, data |-> d] : d \in FileContents}
                \cup {NoFileRead} :
        /\ f.happened = HasPrefix(params.Token, <<"/">>)
        /\ fileRead' = f
        /\ LET r == readToken(params.Token, f)
           IN /\ tok' = r.tok
              /\ err' = r.err
              /\ IF r.err # ""
                 THEN /\ ret' = ReturnError(r.err)
                      /\ pc' = "done"
                      /\ trace' = Append(trace, "readToken:failed")
                 ELSE /\ ret' = ret
                      /\ pc' = "selectTrust"
                      /\ trace' = Append(trace, "readToken")
    /\ UNCHANGED <<op, params, strategies, client, pinClient, localCA, tlsCA, keys,
                   hostID, clients, dialAttempts, fetches, issued, genKeys>>

\* the switch: one resolver is entered, or Register returns a BadParameter error
RegisterSelectTrust ==
    /\ op = "Register" /\ pc = "selectTrust"
    /\ LET s == SelectStrategy(params)
       IN IF s = "none"
          THEN /\ ret' = ReturnError("BadParameter")
               /\ pc' = "done"
               /\ trace' = Append(trace, "select:none")
          ELSE /\ ret' = ret
               /\ pc' = s
               /\ trace' = Append(trace, "select")
    /\ UNCHANGED <<op, params, tok, fileRead, strategies, client, err, pinClient,
                   localCA, tlsCA, keys, hostID, clients, dialAttempts, fetches,
                   issued, genKeys>>

\* insecureRegisterClient: one NewTLSClient that skips verification
InsecureRegisterClient ==
    /\ op = "Register" /\ pc = "insecure"
    /\ strategies' = strategies \cup {"insecure"}
    /\ dialAttempts' = dialAttempts + 1
    /\ pc' = "checkTrust"
    /\ \E ok \in BOOLEAN :
        IF ok
        THEN /\ clients' = Append(clients, NewTLSClient(params.Servers, InsecureTLSConfig(params)))
             /\ client' = Len(clients) + 1
             /\ err' = ""
             /\ trace' = Append(trace, "trustOK")
        ELSE /\ clients' = clients
             /\ client' = 0
             /\ err' = "dial"
             /\ trace' = Append(trace, "trustFailed")
    /\ UNCHANGED <<op, params, tok, fileRead, pinClient, localCA, tlsCA, keys, hostID,
                   fetches, issued, genKeys, ret>>

\* pinRegisterClient: the first, unverified client; its Close is deferred
PinDial1 ==
    /\ op = "Register" /\ pc = "pin"
    /\ strategies' = strategies \cup {"pin"}
    /\ dialAttempts' = dialAttempts + 1
    /\ \E ok \in BOOLEAN :
        IF ok
        THEN /\ clients' = Append(clients, NewTLSClient(params.Servers, PinPhase1TLSConfig(params)))
             /\ pinClient' = Len(clients) + 1
             /\ pc' = "pin_fetch"
             /\ trace' = Append(trace, "pin:dial1")
             /\ UNCHANGED <<client, err>>
        ELSE /\ clients' = clients
             /\ pinClient' = 0
             /\ client' = 0
             /\ err' = "dial"
             /\ pc' = "checkTrust"
             /\ trace' = Append(trace, "trustFailed")
    /\ UNCHANGED <<op, params, tok, fileRead, localCA, tlsCA, keys, hostID, fetches,
                   issued, genKeys, ret>>

\* pinRegisterClient: localCA, err := client.GetLocalCA()
PinGetLocalCA ==
    /\ op = "Register" /\ pc = "pin_fetch"
    /\ fetches' = Append(fetches, pinClient)
    /\ \E r \in {"failed"} \cup CAPEMs :
        IF r = "failed"
        THEN /\ localCA' = localCA
             /\ client' = 0
             /\ err' = "fetch"
             /\ clients' = CloseAll(clients, PinDeferred(pinClient))
             /\ pc' = "checkTrust"
             /\ trace' = Append(trace, "trustFailed")
        ELSE /\ localCA' = r
             /\ pc' = "pin_verify"
             /\ trace' = Append(trace, "pin:fetch")
             /\ UNCHANGED <<client, err, clients>>
    /\ UNCHANGED <<op, params, tok, fileRead, strategies, pinClient, tlsCA, keys,
                   hostID, dialAttempts, issued, genKeys, ret>>

\* pinRegisterClient: parse the fetched CA and check it against the pin
PinVerifyCA ==
    /\ op = "Register" /\ pc = "pin_verify"
    /\ LET parsed == ParseCertificatePEM(localCA)
           e == PinVerify(params.CAPin, parsed)
       IN /\ tlsCA' = parsed.cert
          /\ IF e # ""
             THEN /\ client' = 0
                  /\ err' = e
                  /\ clients' = CloseAll(clients, PinDeferred(pinClient))
                  /\ pc' = "checkTrust"
                  /\ trace' = Append(trace, "trustFailed")
             ELSE /\ pc' = "pin_dial2"
                  /\ trace' = Append(trace, "pin:verified")
                  /\ UNCHANGED <<client, err, clients>>
    /\ UNCHANGED <<op, params, tok, fileRead, strategies, pinClient, localCA, keys,
                   hostID, dialAttempts, fetches, issued, genKeys, ret>>

\* pinRegisterClient: the second client, which trusts the verified CA; the
\* deferred Close of the first client runs as the function returns
PinDial2 ==
    /\ op = "Register" /\ pc = "pin_dial2"
    /\ dialAttempts' = dialAttempts + 1
    /\ pc' = "checkTrust"
    /\ \E ok \in BOOLEAN :
        IF ok
        THEN /\ clients' = CloseAll(
                    Append(clients, NewTLSClient(params.Servers, PinPhase2TLSConfig(params, tlsCA[1]))),
                    PinDeferred(pinClient))
             /\ client' = Len(clients) + 1
             /\ err' = ""
             /\ trace' = Append(trace, "trustOK")
        ELSE /\ clients' = CloseAll(clients, PinDeferred(pinClient))
             /\ client' = 0
             /\ err' = "dial"
             /\ trace' = Append(trace, "trustFailed")
    /\ UNCHANGED <<op, params, tok, fileRead, strategies, pinClient, localCA, tlsCA,
                   keys, hostID, fetches, issued, genKeys, ret>>

\* pathRegisterClient: read the CA file and parse it
PathReadCA ==
    /\ op = "Register" /\ pc = "path"
    /\ strategies' = strategies \cup {"path"}
    /\ \E r \in {"failed"} \cup CAPEMs :
        IF r = "failed"
        THEN /\ client' = 0
             /\ err' = "read"
             /\ pc' = "checkTrust"
             /\ trace' = Append(trace, "trustFailed")
             /\ UNCHANGED <<localCA, tlsCA>>
        ELSE LET parsed == ParseCertificatePEM(r)
             IN /\ localCA' = r
                /\ tlsCA' = parsed.cert
                /\ IF parsed.err # ""
                   THEN /\ client' = 0
                        /\ err' = PathParseError(params.CAPath)
                        /\ pc' = "checkTrust"
                        /\ trace' = Append(trace, "trustFailed")
                   ELSE /\ pc' = "path_dial"
                        /\ trace' = Append(trace, "path:parsed")
                        /\ UNCHANGED <<client, err>>
    /\ UNCHANGED <<op, params, tok, fileRead, pinClient, keys, hostID, clients,
                   dialAttempts, fetches, issued, genKeys, ret>>

\* pathRegisterClient: the client that trusts the certificate read from disk
PathDial ==
    /\ op = "Register" /\ pc = "path_dial"
    /\ dialAttempts' = dialAttempts + 1
    /\ pc' = "checkTrust"
    /\ \E ok \in BOOLEAN :
        IF ok
        THEN /\ clients' = Append(clients, NewTLSClient(params.Servers, PathTLSConfig(params, tlsCA[1])))
             /\ client' = Len(clients) + 1
             /\ err' = ""
             /\ trace' = Append(trace, "trustOK")
        ELSE /\ clients' = clients
             /\ client' = 0
             /\ err' = "dial"
             /\ trace' = Append(trace, "trustFailed")
    /\ UNCHANGED <<op, params, tok, fileRead, strategies, pinClient, localCA, tlsCA,
                   keys, hostID, fetches, issued, genKeys, ret>>

\* if err != nil { return nil, err }; defer client.Close()
RegisterCheckTrust ==
    /\ op = "Register" /\ pc = "checkTrust"
    /\ IF TrustFailed(err)
       THEN /\ ret' = ReturnError(err)
            /\ pc' = "done"
            /\ trace' = Append(trace, "return")
       ELSE /\ ret' = ret
            /\ pc' = "issue"
            /\ trace' = Append(trace, "defer")
    /\ UNCHANGED <<op, params, tok, fileRead, strategies, client, err, pinClient,
                   localCA, tlsCA, keys, hostID, clients, dialAttempts, fetches,
                   issued, genKeys>>

\* the issuance call tried again after it failed, instead of returning
RegisterIssueRetrying ==
    /\ op = "Register" /\ pc = "issue"
    /\ \E r \in {[ok |-> FALSE, keys |-> <<>>]} \cup {[ok |-> TRUE, keys |-> <<b>>] : b \in NetworkBundles} :
        /\ issued' = Append(issued, [client |-> client, open |-> clients[client].open,
                                     req |-> RegisterRequest(params, tok),
                                     ok |-> r.ok, resp |-> r.keys])
        /\ keys' = r.keys
        /\ IF ~r.ok
           THEN /\ err' = "issuance"
                /\ pc' = "issue"
                /\ trace' = Append(trace, "issue:failed")
           ELSE /\ err' = ""
                /\ pc' = "assemble"
                /\ trace' = Append(trace, "issue")
    /\ UNCHANGED <<op, params, tok, fileRead, strategies, client, pinClient, localCA,
                   tlsCA, hostID, clients, dialAttempts, fetches, genKeys, ret>>

\* keys, err := client.RegisterUsingToken(...); if err != nil { return nil, err }
RegisterIssue ==
    /\ op = "Register" /\ pc = "issue"
    /\ \E r \in {[ok |-> FALSE, keys |-> <<>>]} \cup {[ok |-> TRUE, keys |-> <<b>>] : b \in NetworkBundles} :
        /\ issued' = Append(issued, [client |-> client, open |-> clients[client].open,
                                     req |-> RegisterRequest(params, tok),
                                     ok |-> r.ok, resp |-> r.keys])
        /\ keys' = r.keys
        /\ IF ~r.ok
           THEN /\ err' = "issuance"
                /\ ret' = ReturnError("issuance")
                /\ clients' = CloseAll(clients, RegisterDeferred(client))
                /\ pc' = "done"
                /\ trace' = Append(trace, "issue:failed")
           ELSE /\ err' = ""
                /\ ret' = ret
                /\ clients' = clients
                /\ pc' = "assemble"
                /\ trace' = Append(trace, "issue")
    /\ UNCHANGED <<op, params, tok, fileRead, strategies, client, pinClient, localCA,
                   tlsCA, hostID, dialAttempts, fetches, genKeys>>

\* return ReadIdentityFromKeyPair(params.PrivateKey, keys.Cert, keys.TLSCert, keys.TLSCACerts)
RegisterAssemble ==
    /\ op = "Register" /\ pc = "assemble"
    /\ ret' = RegisterResult(params, keys[1])
    /\ clients' = CloseAll(clients, RegisterDeferred(client))
    /\ pc' = "done"
    /\ trace' = Append(trace, "assemble")
    /\ UNCHANGED <<op, params, tok, fileRead, strategies, client, err, pinClient,
                   localCA, tlsCA, keys, hostID, dialAttempts, fetches, issued, genKeys>>

----------------------------------------------------------------------------
(* ReRegister *)

ReRegisterParamsSet ==
    {[Client |-> 1, ID |-> id, AdditionalPrincipals |-> ap, PrivateKey |-> k[1],
      PublicTLSKey |-> k[2], PublicSSHKey |-> k[3]] :
        id \in IdentityIDs, ap \in PrincipalLists, k \in KeyTriples}

\* the authenticated client the caller of ReRegister holds
AuthenticatedClient ==
    [addrs |-> <<"auth:3025">>,
     cfg |-> [TLSConfig(<<"suite">>) EXCEPT !.RootCAsSet = TRUE,
                                            !.RootCAs = {[CommonName |-> "clusterA", SPKI |-> "A"]}],
     open |-> TRUE, closes |-> 0]

\* the request with the host ID and the node name in each other's place
ReRegisterRequestSwapped(p, h) ==
    [HostID |-> p.ID.NodeName, NodeName |-> h, Roles |-> <<p.ID.Role>>,
     AdditionalPrincipals |-> p.AdditionalPrincipals,
     PublicTLSKey |-> p.PublicTLSKey, PublicSSHKey |-> p.PublicSSHKey]

\* ReRegister: the key-generation request
ReRegisterRequest(p, h) ==
    [HostID |-> h, NodeName |-> p.ID.NodeName, Roles |-> <<p.ID.Role>>,
     AdditionalPrincipals |-> p.AdditionalPrincipals,
     PublicTLSKey |-> p.PublicTLSKey, PublicSSHKey |-> p.PublicSSHKey]

\* ReRegister: the final return
ReRegisterResult(p, k) ==
    ReadIdentityFromKeyPair(p.PrivateKey, k.Cert, k.TLSCert, k.TLSCACerts)

\* the client as the caller may hand it over: open, or closed already
SuppliedClients ==
    {AuthenticatedClient, [AuthenticatedClient EXCEPT !.open = FALSE, !.closes = 1]}

\* a deferred Close of the caller's client added to ReRegister
ReRegisterDeferredClosing(c) == <<c>>

\* ReRegister: the clients it closes as it returns (it defers no call)
ReRegisterDeferred(c) == <<>>

\* the caller invokes ReRegister(params) with its authenticated client
CallReRegister ==
    /\ pc = "idle"
    /\ \E p \in ReRegisterParamsSet : params' = p
    /\ op' = "ReRegister"
    /\ \E c \in SuppliedClients : clients' = <<c>>
    /\ pc' = "hostID"
    /\ UNCHANGED <<tok, fileRead, strategies, client, err, pinClient, localCA, tlsCA,
                   keys, hostID, dialAttempts, fetches, issued, genKeys, trace, ret>>

\* hostID, err := params.ID.HostID(); if err != nil { return nil, err }
ReRegisterHostID ==
    /\ op = "ReRegister" /\ pc = "hostID"
    /\ LET r == HostID(params.ID)
       IN /\ hostID' = r.hostID
          /\ err' = r.err
          /\ IF r.err # ""
             THEN /\ ret' = ReturnError(r.err)
                  /\ clients' = CloseAll(clients, ReRegisterDeferred(params.Client))
                  /\ pc' = "done"
                  /\ trace' = Append(trace, "hostID:failed")
             ELSE /\ ret' = ret
                  /\ clients' = clients
                  /\ pc' = "generate"
                  /\ trace' = Append(trace, "hostID")
    /\ UNCHANGED <<op, params, tok, fileRead, strategies, client, pinClient, localCA,
                   tlsCA, keys, dialAttempts, fetches, issued, genKeys>>

\* keys, err := params.Client.GenerateServerKeys(...); if err != nil { return nil, err }
ReRegisterGenerate ==
    /\ op = "ReRegister" /\ pc = "generate"
    /\ \E r \in {[ok |-> FALSE, keys |-> <<>>]} \cup {[ok |-> TRUE, keys |-> <<b>>] : b \in NetworkBundles} :
        /\ genKeys' = Append(genKeys, [on |-> "client", client |-> params.Client,
                                       req |-> ReRegisterRequest(params, hostID),
                                       ok |-> r.ok, resp |-> r.keys])
        /\ keys' = r.keys
        /\ IF ~r.ok
           THEN /\ err' = "issuance"
                /\ ret' = ReturnError("issuance")
                /\ clients' = CloseAll(clients, ReRegisterDeferred(params.Client))
                /\ pc' = "done"
                /\ trace' = Append(trace, "generate:failed")
           ELSE /\ err' = ""
                /\ ret' = ret
                /\ clients' = clients
                /\ pc' = "assemble"
                /\ trace' = Append(trace, "generate")
    /\ UNCHANGED <<op, params, tok, fileRead, strategies, client, pinClient, localCA,
                   tlsCA, hostID, dialAttempts, fetches, issued>>

\* return ReadIdentityFromKeyPair(params.PrivateKey, keys.Cert, keys.TLSCert, keys.TLSCACerts)
ReRegisterAssemble ==
    /\ op = "ReRegister" /\ pc = "assemble"
    /\ ret' = ReRegisterResult(params, keys[1])
    /\ clients' = CloseAll(clients, ReRegisterDeferred(params.Client))
    /\ pc' = "done"
    /\ trace' = Append(trace, "assemble")
    /\ UNCHANGED <<op, params, tok, fileRead, strategies, client, err, pinClient,
                   localCA, tlsCA, keys, hostID, dialAttempts, fetches,
                   issued, genKeys>>

----------------------------------------------------------------------------
(* LocalRegister *)

LocalRegisterParamsSet ==
    {[ID |-> id, AdditionalPrincipals |-> ap] : id \in IdentityIDs, ap \in PrincipalLists}

\* the request without the additional principals
LocalRegisterRequestNoPrincipals(p) ==
    [HostID |-> p.ID.HostUUID, NodeName |-> p.ID.NodeName, Roles |-> <<p.ID.Role>>,
     AdditionalPrincipals |-> <<>>,
     PublicTLSKey |-> "", PublicSSHKey |-> ""]

\* LocalRegister: the key-generation request (the public keys are left unset)
LocalRegisterRequest(p) ==
    [HostID |-> p.ID.HostUUID, NodeName |-> p.ID.NodeName, Roles |-> <<p.ID.Role>>,
     AdditionalPrincipals |-> p.AdditionalPrincipals,
     PublicTLSKey |-> "", PublicSSHKey |-> ""]

\* the SSH and the TLS certificate passed in each other's place
LocalRegisterResultSwapped(k) ==
    ReadIdentityFromKeyPair(k.Key, k.TLSCert, k.Cert, k.TLSCACerts)

\* LocalRegister: the final return
LocalRegisterResult(k) ==
    ReadIdentityFromKeyPair(k.Key, k.Cert, k.TLSCert, k.TLSCACerts)

\* the caller invokes LocalRegister(id, authServer, additionalPrincipals)
CallLocalRegister ==
    /\ pc = "idle"
    /\ \E p \in LocalRegisterParamsSet : params' = p
    /\ op' = "LocalRegister"
    /\ pc' = "generate"
    /\ UNCHANGED <<tok, fileRead, strategies, client, err, pinClient, localCA, tlsCA,
                   keys, hostID, clients, dialAttempts, fetches, issued, genKeys,
                   trace, ret>>

\* keys, err := authServer.GenerateServerKeys(...); if err != nil { return nil, err }
LocalRegisterGenerate ==
    /\ op = "LocalRegister" /\ pc = "generate"
    /\ \E r \in {[ok |-> FALSE, keys |-> <<>>]} \cup {[ok |-> TRUE, keys |-> <<b>>] : b \in LocalBundles} :
        /\ genKeys' = Append(genKeys, [on |-> "authServer", client |-> 0,
                                       req |-> LocalRegisterRequest(params),
                                       ok |-> r.ok, resp |-> r.keys])
        /\ keys' = r.keys
        /\ IF ~r.ok
           THEN /\ err' = "issuance"
                /\ ret' = ReturnError("issuance")
                /\ pc' = "done"
                /\ trace' = Append(trace, "generate:failed")
           ELSE /\ err' = ""
                /\ ret' = ret
                /\ pc' = "assemble"
                /\ trace' = Append(trace, "generate")
    /\ UNCHANGED <<op, params, tok, fileRead, strategies, client, pinClient, localCA,
                   tlsCA, hostID, clients, dialAttempts, fetches, issued>>

\* return ReadIdentityFromKeyPair(keys.Key, keys.Cert, keys.TLSCert, keys.TLSCACerts)
LocalRegisterAssemble ==
    /\ op = "LocalRegister" /\ pc = "assemble"
    /\ ret' = LocalRegisterResult(keys[1])
    /\ pc' = "done"
    /\ trace' = Append(trace, "assemble")
    /\ UNCHANGED <<op, params, tok, fileRead, strategies, client, err, pinClient,
                   localCA, tlsCA, keys, hostID, clients, dialAttempts, fetches,
                   issued, genKeys>>

----------------------------------------------------------------------------
(* The specification *)

Next ==
    \/ CallRegister
    \/ RegisterReadToken
    \/ RegisterSelectTrust
    \/ InsecureRegisterClient
    \/ PinDial1
    \/ PinGetLocalCA
    \/ PinVerifyCA
    \/ PinDial2
    \/ PathReadCA
    \/ PathDial
    \/ RegisterCheckTrust
    \/ RegisterIssue
    \/ RegisterAssemble
    \/ CallReRegister
    \/ ReRegisterHostID
    \/ ReRegisterGenerate
    \/ ReRegisterAssemble
    \/ CallLocalRegister
    \/ LocalRegisterGenerate
    \/ LocalRegisterAssemble

Spec == Init /\ [][Next]_vars

----------------------------------------------------------------------------
(* Properties *)

Events == {trace[i] : i \in 1..Len(trace)}

PathMarked(t) == HasPrefix(t, <<"/">>)

\* t is d without its leading and trailing white space
IsTrimOf(t, d) ==
    \E i \in 0..Len(d) : \E j \in 0..Len(d) :
        /\ i + Len(t) + j = Len(d)
        /\ t = SubSeq(d, i + 1, i + Len(t))
        /\ \A k \in 1..i : IsSpace(d[k])
        /\ \A k \in (Len(d) - j + 1)..Len(d) : IsSpace(d[k])
        /\ t # <<>> => ~IsSpace(t[1]) /\ ~IsSpace(t[Len(t)])

\* C1: Register enters exactly the one trust resolver that the precedence
\* insecure > pin > path selects and no other; when no selector field is set
\* it returns the configuration error, having constructed no client and made
\* no NewTLSClient, GetLocalCA or RegisterUsingToken call.
C1_StrategyPrecedence ==
    op = "Register" =>
        LET expected ==
                IF params.InsecureSkipCAVerification THEN {"insecure"}
                ELSE IF params.CAPin # <<>> THEN {"pin"}
                ELSE IF params.CAPath # "" THEN {"path"}
                ELSE {}
        IN /\ strategies \subseteq expected
           /\ pc \in {"checkTrust", "issue", "assemble"} => strategies = expected
           /\ pc = "done" => strategies = expected
           /\ (expected = {} /\ pc = "done") =>
                /\ ret.err = "BadParameter" /\ ret.identity = <<>>
                /\ clients = <<>> /\ dialAttempts = 0
                /\ fetches = <<>> /\ issued = <<>>

\* a finished call with both a pin and a path set, where only the pin resolver ran
C1_Witness ==
    /\ op = "Register" /\ pc = "done"
    /\ ~params.InsecureSkipCAVerification /\ params.CAPin # <<>> /\ params.CAPath # ""
    /\ strategies = {"pin"}

\* a finished call with no selector set
C1_WitnessNone ==
    /\ op = "Register" /\ pc = "done" /\ strategies = {} /\ ret.err = "BadParameter"

\* the fetched CA parses and its fingerprint is not the pin
PinMismatch ==
    /\ op = "Register" /\ "pin" \in strategies /\ localCA # ""
    /\ ParseCertificatePEM(localCA).err = ""
    /\ CalculateSKPI(ParseCertificatePEM(localCA).cert[1]) # params.CAPin

\* C2: in the pin strategy, when the fingerprint of the fetched CA is not the
\* pin, Register returns an error and no Identity, the second connection is
\* never opened and RegisterUsingToken is never called.
C2_PinMismatchStops ==
    PinMismatch =>
        /\ issued = <<>>
        /\ dialAttempts = 1 /\ Len(clients) = 1
        /\ pc \notin {"pin_dial2", "issue", "assemble"}
        /\ pc = "done" => ret.err # "" /\ ret.identity = <<>>

\* a finished call whose fetched CA did not match the pin
C2_Witness == PinMismatch /\ pc = "done"

\* C3: RegisterUsingToken is called only after the selected resolver returned
\* a client with no error, and in the pin strategy only after the pin check
\* passed; a run whose resolver failed never reaches the call.
C3_TrustBeforeIssuance ==
    op = "Register" =>
        /\ \A i \in 1..Len(trace) :
              trace[i] \in {"issue", "issue:failed"} =>
                  \E j \in 1..(i - 1) :
                      /\ trace[j] = "trustOK"
                      /\ "pin" \in strategies =>
                            \E k \in 1..(j - 1) : trace[k] = "pin:verified"
        /\ pc \in {"issue", "assemble"} =>
              /\ "trustOK" \in Events /\ "trustFailed" \notin Events
              /\ client \in 1..Len(clients)
        /\ "trustFailed" \in Events => issued = <<>>
        /\ "trustOK" \notin Events => issued = <<>>
        /\ \A i \in 1..Len(issued) : issued[i].client \in 1..Len(clients)

\* an issuance call made in the pin strategy
C3_Witness == op = "Register" /\ "pin" \in strategies /\ issued # <<>>

\* C4: every client constructed during Register is closed exactly once by the
\* time Register returns, on every exit path, and never closed twice.
C4_ClosedExactlyOnce ==
    op = "Register" =>
        /\ \A i \in 1..Len(clients) :
              /\ clients[i].closes <= 1
              /\ clients[i].open = (clients[i].closes = 0)
        /\ pc = "done" => \A i \in 1..Len(clients) : clients[i].closes = 1

\* a finished pin-strategy call that constructed both clients
C4_Witness == op = "Register" /\ pc = "done" /\ Len(clients) = 2

\* C5: the client the pin strategy returns verifies certificates and trusts
\* exactly one CA certificate, the one fetched in phase 1 whose fingerprint
\* is the pin.
C5_PinExclusiveTrust ==
    (op = "Register" /\ "pin" \in strategies /\ client # 0) =>
        LET cfg == clients[client].cfg
            fetched == ParseCertificatePEM(localCA)
        IN /\ client # pinClient
           /\ fetched.err = ""
           /\ cfg.RootCAsSet /\ cfg.RootCAs = {fetched.cert[1]}
           /\ ~cfg.InsecureSkipVerify
           /\ CalculateSKPI(fetched.cert[1]) = params.CAPin

\* the pin strategy returned its second client
C5_Witness == op = "Register" /\ "pin" \in strategies /\ client # 0

\* C6: a token that does not begin with "/" is returned unchanged; a token
\* that begins with "/" and names a readable file resolves to the file's
\* contents without the surrounding white space ("m\n" resolves to "m").
C6_TokenResolution ==
    (op = "Register" /\ pc # "readToken") =>
        /\ ~PathMarked(params.Token) => tok = params.Token /\ ~fileRead.happened
        /\ (PathMarked(params.Token) /\ fileRead.ok) => IsTrimOf(tok, fileRead.data)
        /\ (fileRead.ok /\ fileRead.data = <<"m", "\n">>) => tok = <<"m">>

\* a token file with white space on both sides of the token
C6_Witness ==
    /\ op = "Register" /\ fileRead.ok /\ fileRead.data = <<" ", "m", "\n">>
    /\ tok = <<"m">>

\* C7: when the token is path-marked and the file cannot be read, the token
\* is empty and there is no error: Register goes on to trust resolution, and
\* every issuance call it makes carries the empty token.
C7_UnreadableTokenFile ==
    (op = "Register" /\ fileRead.happened /\ ~fileRead.ok) =>
        /\ tok = <<>>
        /\ trace[1] = "readToken"
        /\ pc = "done" => Len(trace) >= 2 /\ trace[2] \in {"select", "select:none"}
        /\ "trustOK" \in Events /\ pc \in {"assemble", "done"} => Len(issued) = 1
        /\ \A i \in 1..Len(issued) : issued[i].req.Token = <<>>

\* an issuance call made after the token file could not be read
C7_Witness ==
    op = "Register" /\ fileRead.happened /\ ~fileRead.ok /\ issued # <<>>

\* the steps that record a failure
FailureEvents ==
    {"readToken:failed", "select:none", "trustFailed", "issue:failed",
     "hostID:failed", "generate:failed"}

\* C8: Register, ReRegister and LocalRegister return either an Identity and
\* no error or an error and no Identity; an Identity is returned only after
\* the issuance call and the assembly succeeded, and none after any failure.
C8_IdentityOrError ==
    pc = "done" =>
        /\ (ret.identity = <<>>) # (ret.err = "")
        /\ Events \cap FailureEvents # {} => ret.identity = <<>>
        /\ ret.identity # <<>> =>
              /\ trace[Len(trace)] = "assemble"
              /\ op = "Register" => Len(issued) = 1 /\ issued[1].ok
              /\ op # "Register" => Len(genKeys) = 1 /\ genKeys[1].ok
              /\ LET b == keys[1]
                 IN b.Cert # "badssh" /\ b.TLSCert # "badtls" /\ b.TLSCACerts # <<>>

\* Register returned after the issuance call failed
C8_Witness == op = "Register" /\ pc = "done" /\ "issue:failed" \in Events

\* C9: a successful Register with private key K, against an authority that
\* answered bundle B, returns the Identity assembled from K and B's SSH
\* certificate, TLS certificate and CA chain.
C9_RoundTrip ==
    (op = "Register" /\ pc = "done" /\ Len(issued) = 1 /\ issued[1].ok) =>
        LET B == issued[1].resp[1]
            K == params.PrivateKey
        IN /\ ret = ReadIdentityFromKeyPair(K, B.Cert, B.TLSCert, B.TLSCACerts)
           /\ ret.err = "" =>
                ret.identity[1] = [Key |-> K, Cert |-> B.Cert, TLSCert |-> B.TLSCert,
                                   TLSCACerts |-> B.TLSCACerts]

\* Register returned an Identity
C9_Witness == op = "Register" /\ pc = "done" /\ ret.err = "" /\ ret.identity # <<>>

\* C10: the request of the issuance call carries the token (Register only),
\* the IdentityID fields, the additional principals and the public TLS and
\* SSH keys of the parameters, and the private key in none of its fields.
C10_PrivateKeyStaysLocal ==
    /\ op = "Register" =>
          \A i \in 1..Len(issued) :
              LET r == issued[i].req
              IN /\ DOMAIN r = {"Token", "HostID", "NodeName", "Role",
                                "AdditionalPrincipals", "PublicTLSKey", "PublicSSHKey"}
                 /\ r.Token = tok
                 /\ r.HostID = params.ID.HostUUID
                 /\ r.NodeName = params.ID.NodeName
                 /\ r.Role = params.ID.Role
                 /\ r.AdditionalPrincipals = params.AdditionalPrincipals
                 /\ r.PublicTLSKey = params.PublicTLSKey
                 /\ r.PublicSSHKey = params.PublicSSHKey
                 /\ params.PrivateKey \notin {r.NodeName, r.Role, r.PublicTLSKey, r.PublicSSHKey}
                 /\ \A k \in 1..Len(r.Token) : r.Token[k] # params.PrivateKey
                 /\ \A k \in 1..Len(r.HostID) : r.HostID[k] # params.PrivateKey
                 /\ \A k \in 1..Len(r.AdditionalPrincipals) :
                        r.AdditionalPrincipals[k] # params.PrivateKey
    /\ op = "ReRegister" =>
          \A i \in 1..Len(genKeys) :
              LET r == genKeys[i].req
              IN /\ DOMAIN r = {"HostID", "NodeName", "Roles", "AdditionalPrincipals",
                                "PublicTLSKey", "PublicSSHKey"}
                 /\ r.NodeName = params.ID.NodeName
                 /\ r.Roles = <<params.ID.Role>>
                 /\ r.AdditionalPrincipals = params.AdditionalPrincipals
                 /\ r.PublicTLSKey = params.PublicTLSKey
                 /\ r.PublicSSHKey = params.PublicSSHKey
                 /\ params.PrivateKey \notin
                        {r.HostID, r.NodeName, r.Roles[1], r.PublicTLSKey, r.PublicSSHKey}
                 /\ \A k \in 1..Len(r.AdditionalPrincipals) :
                        r.AdditionalPrincipals[k] # params.PrivateKey

\* Register made its issuance call with a non-empty token and a principal
C10_Witness ==
    /\ op = "Register" /\ issued # <<>> /\ tok # <<>>
    /\ params.AdditionalPrincipals # <<>>

\* C11: in one run of Register GetLocalCA is called at most once, and only in
\* the pin strategy, and RegisterUsingToken at most once; a successful
\* pin-strategy run made exactly one call of each and returns the Identity
\* assembled from the returned bundle and the private key of the parameters.
C11_NoRetry ==
    op = "Register" =>
        /\ Len(fetches) <= 1
        /\ fetches # <<>> => strategies = {"pin"}
        /\ Len(issued) <= 1
        /\ (pc = "done" /\ ret.err = "" /\ "pin" \in strategies) =>
              /\ Len(fetches) = 1 /\ Len(issued) = 1
              /\ LET B == issued[1].resp[1]
                 IN ret.identity = <<[Key |-> params.PrivateKey, Cert |-> B.Cert,
                                      TLSCert |-> B.TLSCert, TLSCACerts |-> B.TLSCACerts]>>

\* a successful pin-strategy run
C11_Witness ==
    /\ op = "Register" /\ pc = "done" /\ ret.err = "" /\ strategies = {"pin"}
    /\ Len(fetches) = 1 /\ Len(issued) = 1

\* ReRegister resolved no token, entered no trust resolver, fetched no CA
\* and opened no connection
NoBootstrap ==
    /\ ~fileRead.happened /\ tok = <<>> /\ strategies = {}
    /\ fetches = <<>> /\ issued = <<>> /\ dialAttempts = 0

\* C12 as stated: ReRegister resolves no token and runs no trust bootstrap,
\* it succeeds, and it made exactly one key-generation call on the supplied
\* client for the host identity of the input.
C12_AlwaysSucceeds ==
    (op = "ReRegister" /\ pc = "done") =>
        /\ NoBootstrap
        /\ ret.err = "" /\ ret.identity # <<>>
        /\ Len(genKeys) = 1 /\ genKeys[1].on = "client"

\* C12, amended: ReRegister resolves no token, fetches no CA and opens no
\* connection; it makes at most one key-generation call, always on the
\* supplied client, and exactly one unless the host ID cannot be derived;
\* the request names the host ID derived from the input IdentityID, its node
\* name and its role; ReRegister succeeds when the derivation, the call and
\* the assembly succeed, and then returns the Identity assembled from the
\* bundle answered to that request.
C12_NoTokenNoBootstrap ==
    op = "ReRegister" =>
        /\ NoBootstrap
        /\ Len(clients) = 1
        /\ Len(genKeys) <= 1
        /\ \A i \in 1..Len(genKeys) :
              /\ genKeys[i].on = "client" /\ genKeys[i].client = params.Client
              /\ Len(params.ID.HostUUID) >= 2
              /\ genKeys[i].req.HostID = params.ID.HostUUID[1]
              /\ genKeys[i].req.NodeName = params.ID.NodeName
              /\ genKeys[i].req.Roles = <<params.ID.Role>>
        /\ (pc \in {"assemble", "done"} /\ Len(params.ID.HostUUID) >= 2) => Len(genKeys) = 1
        /\ (pc = "done" /\ Len(params.ID.HostUUID) < 2) => genKeys = <<>> /\ ret.err # ""
        /\ (pc = "done" /\ Len(genKeys) = 1 /\ ~genKeys[1].ok) => ret.err # ""
        /\ (pc = "done" /\ Len(genKeys) = 1 /\ genKeys[1].ok) =>
              LET B == genKeys[1].resp[1]
              IN /\ ret = ReadIdentityFromKeyPair(params.PrivateKey, B.Cert, B.TLSCert, B.TLSCACerts)
                 /\ (B.Cert = "sshcert" /\ B.TLSCert = "tlscert" /\ B.TLSCACerts # <<>>) =>
                        ret.err = "" /\ ret.identity # <<>>

\* ReRegister returned an Identity after one key-generation call
C12_Witness ==
    /\ op = "ReRegister" /\ pc = "done" /\ ret.err = "" /\ ret.identity # <<>>
    /\ Len(genKeys) = 1

\* C13: LocalRegister resolves no token, enters no trust resolver, opens no
\* connection and makes no GetLocalCA or RegisterUsingToken call; it calls
\* GenerateServerKeys of the in-process authority exactly once, with the
\* IdentityID fields and the additional principals, and when it returns no
\* error it returns an Identity.
C13_LocalNoNetwork ==
    op = "LocalRegister" =>
        /\ NoBootstrap
        /\ clients = <<>>
        /\ Len(genKeys) <= 1
        /\ pc # "generate" => Len(genKeys) = 1
        /\ \A i \in 1..Len(genKeys) :
              /\ genKeys[i].on = "authServer"
              /\ genKeys[i].req.HostID = params.ID.HostUUID
              /\ genKeys[i].req.NodeName = params.ID.NodeName
              /\ genKeys[i].req.Roles = <<params.ID.Role>>
              /\ genKeys[i].req.AdditionalPrincipals = params.AdditionalPrincipals
        /\ (pc = "done" /\ ret.err = "") => ret.identity # <<>>
        /\ (pc = "done" /\ genKeys[1].ok) =>
              LET B == genKeys[1].resp[1]
              IN (B.Cert = "sshcert" /\ B.TLSCert = "tlscert" /\ B.TLSCACerts # <<>>) =>
                    ret.err = "" /\ ret.identity # <<>>

\* LocalRegister returned an Identity for a request with a principal
C13_Witness ==
    /\ op = "LocalRegister" /\ pc = "done" /\ ret.err = "" /\ ret.identity # <<>>
    /\ params.AdditionalPrincipals # <<>>

\* C14: the failure state TokenFailed is reached when the token source is
\* unreadable: a run of Register whose token file cannot be read stops at
\* token resolution with an error.  (TrustFailed and IssuanceFailed are
\* reached by the runs that record "trustFailed" and "issue:failed".)
C14_UnreadableTokenFails ==
    (op = "Register" /\ fileRead.happened /\ ~fileRead.ok) =>
        /\ "readToken:failed" \in Events
        /\ pc = "done" /\ ret.err # "" /\ ret.identity = <<>>

\* C14, what the code does instead: no run of Register stops at token
\* resolution, whatever the token and the file
C14_TokenNeverFails ==
    op = "Register" =>
        /\ "readToken:failed" \notin Events
        /\ pc = "done" => Len(trace) >= 2

\* C15 as stated: in every successful run of Register the token is resolved
\* after trust has been established and before the issuance call.
C15_TokenAfterTrust ==
    (op = "Register" /\ pc = "done" /\ ret.err = "") =>
        \E i \in 1..Len(trace) : \E j \in 1..Len(trace) : \E k \in 1..Len(trace) :
            /\ i < j /\ j < k
            /\ trace[i] = "trustOK" /\ trace[j] = "readToken" /\ trace[k] = "issue"

\* C15, amended: every run of Register resolves the token first; the switch
\* is its second step, a resolver returns a client only after the switch,
\* the issuance call comes only after that, the assembly only after the
\* issuance call, and a successful run ends with the assembly: the order is
\* TokenResolved, TrustEstablishing, TrustEstablished, Issuing, IdentityReady.
C15_TokenBeforeTrust ==
    op = "Register" =>
        /\ trace # <<>> => trace[1] = "readToken"
        /\ \A i \in 1..Len(trace) :
              /\ trace[i] = "readToken" => i = 1
              /\ trace[i] \in {"select", "select:none"} => i = 2
              /\ trace[i] \in {"trustOK", "trustFailed"} =>
                    i > 2 /\ trace[2] = "select"
              /\ trace[i] \in {"issue", "issue:failed"} =>
                    \E j \in 3..(i - 1) : trace[j] = "trustOK"
              /\ trace[i] = "assemble" =>
                    i = Len(trace) /\ trace[i - 1] = "issue"
        /\ (pc = "done" /\ ret.err = "") => trace[Len(trace)] = "assemble"

\* a successful run of Register
C15_Witness ==
    /\ op = "Register" /\ pc = "done" /\ ret.err = ""
    /\ trace[1] = "readToken" /\ trace[Len(trace)] = "assemble"

\* C16: in the pin strategy the phase-1 client is a client of its own: it
\* is the only client GetLocalCA is called on, it is closed once the pin
\* resolver has returned, on every exit path, and so before the issuance
\* call; the issuance call is made on the other, phase-2 client.
C16_PinConnectionsIndependent ==
    (op = "Register" /\ "pin" \in strategies) =>
        /\ \A i \in 1..Len(fetches) : pinClient # 0 /\ fetches[i] = pinClient
        /\ (pinClient # 0 /\ pc \in {"pin_fetch", "pin_verify", "pin_dial2"}) =>
              clients[pinClient].open
        /\ (pinClient # 0 /\ pc \in {"checkTrust", "issue", "assemble", "done"}) =>
              ~clients[pinClient].open /\ clients[pinClient].closes = 1
        /\ client # 0 => client # pinClient /\ pinClient # 0
        /\ \A i \in 1..Len(issued) :
              /\ issued[i].client # pinClient
              /\ issued[i].client = client
              /\ clients[issued[i].client].cfg # clients[pinClient].cfg

\* the pin resolver returned without its second client, the first one closed
C16_WitnessDial2Failed ==
    /\ op = "Register" /\ pc = "checkTrust" /\ pinClient # 0 /\ err = "dial"
    /\ ~clients[pinClient].open

\* an issuance call in the pin strategy, made with the phase-1 client closed
C16_Witness ==
    /\ op = "Register" /\ "pin" \in strategies /\ issued # <<>>
    /\ ~clients[pinClient].open /\ issued[1].client # pinClient

\* the private keys a caller can hold before the call
CallerPrivateKeys == {k[1] : k \in KeyTriples}

\* C17 as stated: the Identity LocalRegister returns is built from a private
\* key held by the caller and the certificates of the returned bundle.
C17_CallerKey ==
    (op = "LocalRegister" /\ pc = "done" /\ ret.err = "") =>
        LET B == genKeys[1].resp[1]
        IN /\ ret.identity[1].Key \in CallerPrivateKeys
           /\ ret.identity[1].Cert = B.Cert
           /\ ret.identity[1].TLSCert = B.TLSCert
           /\ ret.identity[1].TLSCACerts = B.TLSCACerts

\* C17, amended: LocalRegister assembles the Identity as Register does, but
\* from the private key of the returned bundle (it is given no key by the
\* caller) together with the bundle's SSH certificate, TLS certificate and
\* CA chain: its result is the one Register returns for that key and bundle.
C17_SameAssembly ==
    (op = "LocalRegister" /\ pc = "done" /\ Len(genKeys) = 1 /\ genKeys[1].ok) =>
        LET B == genKeys[1].resp[1]
        IN /\ ret = RegisterResult([PrivateKey |-> B.Key], B)
           /\ ret.err = "" =>
                ret.identity = <<[Key |-> B.Key, Cert |-> B.Cert, TLSCert |-> B.TLSCert,
                                  TLSCACerts |-> B.TLSCACerts]>>

\* LocalRegister returned an Identity
C17_Witness ==
    op = "LocalRegister" /\ pc = "done" /\ ret.err = "" /\ ret.identity # <<>>

\* the error message e contains the path
NamesPath(e, path) ==
    <<e, path>> \in {<<"failed to parse certificate at /ca.pem", "/ca.pem">>,
                     <<"failed to parse certificate at /etc/ca.pem", "/etc/ca.pem">>}

\* the path resolver could not read the CA file, or could not parse it
PathCAUnusable ==
    /\ op = "Register" /\ "path" \in strategies
    /\ localCA = "" \/ ParseCertificatePEM(localCA).err # ""

\* C18: in the path strategy, when the CA file cannot be read or parsed
\* Register fails with an error, which for a parse failure names the CA
\* path, without a NewTLSClient or RegisterUsingToken call; when the file
\* parses, the pool of the client holds exactly the parsed certificate.
C18_PathFailures ==
    /\ PathCAUnusable =>
          /\ pc \in {"checkTrust", "done"}
          /\ dialAttempts = 0 /\ clients = <<>> /\ client = 0 /\ issued = <<>>
          /\ err # ""
          /\ localCA # "" => NamesPath(err, params.CAPath)
          /\ pc = "done" => ret.identity = <<>> /\ ret.err = err
    /\ (op = "Register" /\ "path" \in strategies /\ client # 0) =>
          /\ localCA # "" /\ ParseCertificatePEM(localCA).err = ""
          /\ clients[client].cfg.RootCAsSet
          /\ clients[client].cfg.RootCAs = {ParseCertificatePEM(localCA).cert[1]}

\* Register returned the error of a CA file that does not parse
C18_Witness ==
    /\ PathCAUnusable /\ pc = "done" /\ localCA = "garbage"
    /\ params.CAPath = "/etc/ca.pem"

\* the path resolver returned a client
C18_WitnessClient == op = "Register" /\ "path" \in strategies /\ client # 0

\* C19: the issuance call is made on an open client: the client a resolver
\* returned stays open, never closed, until the issuance call has returned,
\* and is closed once Register has returned.
C19_IssuanceOnOpenClient ==
    op = "Register" =>
        /\ \A i \in 1..Len(issued) : issued[i].open
        /\ (client # 0 /\ pc \in {"checkTrust", "issue", "assemble"}) =>
              clients[client].open /\ clients[client].closes = 0
        /\ (client # 0 /\ pc = "done") =>
              ~clients[client].open /\ clients[client].closes = 1

\* the issuance call has returned and the client is still open
C19_Witness ==
    /\ op = "Register" /\ pc = "assemble" /\ issued # <<>> /\ issued[1].open
    /\ clients[client].open /\ "pin" \in strategies

\* C20: ReRegister leaves the caller's client as it found it: no step of
\* ReRegister opens or closes it, on any exit path, and when the host ID
\* cannot be derived from the IdentityID no call is made on it.
C20_ClientUntouched ==
    /\ [][op = "ReRegister" => clients' = clients]_vars
    /\ [](op = "ReRegister" =>
            /\ fetches = <<>> /\ issued = <<>>
            /\ (pc = "done" /\ Len(params.ID.HostUUID) < 2) =>
                  genKeys = <<>> /\ ret.err # "")

\* ReRegister returned an Identity and the client it was given is still open
C20_Witness ==
    /\ op = "ReRegister" /\ pc = "done" /\ ret.err = ""
    /\ clients[1].open /\ clients[1].closes = 0

\* ReRegister returned without a call, the host ID not derivable
C20_WitnessHostID ==
    /\ op = "ReRegister" /\ pc = "done" /\ "hostID:failed" \in Events
    /\ genKeys = <<>> /\ clients[1].open

====
